---------------------------- MODULE Spec2Model ----------------------------
(***************************************************************************)
(* A model of mtf-rs: the reader of Microsoft Tape Format backups          *)
(* (src/src/lib.rs) and the page index over the embedded MDF payload       *)
(* (src/src/mdf.rs).                                                       *)
(*                                                                         *)
(* SpecIndex is the page index: MTFBackupIndex::build over a payload,      *)
(* followed by any number of lookup / get calls.                           *)
(*                                                                         *)
(* SpecMTF is the reader: DBLKIterator::next called again and again over   *)
(* an input file, given byte by byte.                                      *)
(*                                                                         *)
(* A Rust panic (a failed unwrap, assert_eq!, slice or vector index, an    *)
(* arithmetic underflow, unimplemented!) is modelled as an outcome of its  *)
(* own (panic = TRUE, k = "Panic"): it ends the call without a return      *)
(* value.                                                                  *)
(***************************************************************************)
EXTENDS Integers, Sequences, FiniteSets, TLC

VARIABLES
    data,       \* mdf.rs: the payload handed to build, one element per 8192-byte page:
                \* the PagePointer fields of its page header
    cache,      \* the cache files of the working directory: cache name -> stored index
    ipc,        \* "init": build not yet called; "built": build returned; "panic": build
                \* panicked; "idle": no payload (SpecMTF)
    index,      \* the MTFBackupIndex build returned
    ptr,        \* the PagePointer of the latest lookup / get call
    res         \* the outcome of the latest lookup / get call

ivars == <<data, cache, ipc, index, ptr, res>>

VARIABLES
    mmap,       \* lib.rs: the bytes of the mapped input file
    position,   \* DBLKIterator.position
    sets,       \* MTFParser.sets, the latest TAPE, SSET, VOLB, DIRB, FILE, SFMB blocks
    out,        \* the outcome of the latest call of DBLKIterator::next
    call,       \* position and sets at the start of that call
    starts,     \* the start positions of the blocks yielded so far, in order
    overflow_checks
                \* the build: TRUE when an integer overflow panics (the debug
                \* profile), FALSE when it wraps (the release profile)

mvars == <<mmap, position, sets, out, call, starts, overflow_checks>>

VARIABLES
    builders,   \* mdf.rs: the processes that run MTFBackupIndex::build at the same
                \* time: where each is in build, how much of the cache file it has
                \* written, and the index it holds
    disk        \* the cache files these processes see: cache name -> content

cvars == <<builders, disk>>

vars == <<ivars, mvars, cvars>>

---------------------------------------------------------------------------
(* Option<T> *)
None == <<>>

Some(v) == <<v>>

IsSome(o) == o # <<>>

Unwrap(o) == o[1]

Min(a, b) == IF a < b THEN a ELSE b

---------------------------------------------------------------------------
(* src/src/mdf.rs *)

\* mdf::PAGE_SIZE, the size of one database page in bytes
PAGE_SIZE == 8192

\* MTFBackupIndex::DIVISOR
DIVISOR == 1024

\* cache_name hashes the first 10 pages of the payload
CACHE_PAGES == 10

PagePointer(f, p) == [file_id |-> f, page_id |-> p]

IndexEntry(s, e, b) == [start |-> s, stop |-> e, base |-> b]

\* data.len() in bytes
DataLen(d) == Len(d) * PAGE_SIZE

\* PageHeader::parse_ptr(&data[i * PAGE_SIZE..]): the pointer of page i,
\* None for an uninitialised page (file_id = 0)
parse_ptr(d, i) == IF d[i + 1].file_id = 0 THEN None ELSE Some(d[i + 1])

\* cache_name: the hash of the first 10 pages and the length, as the pair hashed.
\* &data[..10 * PAGE_SIZE] panics on a shorter payload.
cache_name(d) ==
    IF DataLen(d) < CACHE_PAGES * PAGE_SIZE
    THEN [panic |-> TRUE, name |-> <<>>]
    ELSE [panic |-> FALSE, name |-> <<SubSeq(d, 1, CACHE_PAGES), DataLen(d)>>]

RECURSIVE EmptyOuter(_)
\* vec![vec![]; outer_level_entries]
EmptyOuter(n) == IF n = 0 THEN <<>> ELSE Append(EmptyOuter(n - 1), <<>>)

RECURSIVE GrowIdx(_, _, _)
\* while idx.len() < end.file_id { idx.push(vec![vec![]; outer_level_entries]) }
GrowIdx(idx, file_id, outer_level_entries) ==
    IF Len(idx) < file_id
    THEN GrowIdx(Append(idx, EmptyOuter(outer_level_entries)), file_id, outer_level_entries)
    ELSE idx

\* max_page_ids.entry(end.file_id).and_modify(|e| *e = end.page_id.max(*e)).or_insert(end.page_id)
UpdateMax(m, e) ==
    [f \in DOMAIN m \cup {e.file_id} |->
        IF f = e.file_id
        THEN (IF f \in DOMAIN m /\ m[f] > e.page_id THEN m[f] ELSE e.page_id)
        ELSE m[f]]

\* The closure write_entry of build, on the state st of the scan.
\* idx[file_id - 1][start.page_id / divisor] panics when that slot does not exist.
write_entry(st, start, end, start_idx) ==
    LET grown  == GrowIdx(st.idx, end.file_id, st.outer_level_entries)
        bucket == start.page_id \div st.divisor
    IN  IF bucket >= Len(grown[end.file_id])
        THEN [st EXCEPT !.panic = TRUE, !.idx = grown]
        ELSE [st EXCEPT
                !.idx = [grown EXCEPT ![end.file_id][bucket + 1] =
                            Append(@, IndexEntry(start.page_id, end.page_id, start_idx))],
                !.max_page_ids = UpdateMax(st.max_page_ids, end)]

\* One iteration of `for i in 1..num_pages` of build
ScanPage(d, st, i) ==
    IF st.panic THEN st
    ELSE LET new == parse_ptr(d, i)
         IN  IF IsSome(new)
             THEN LET n == Unwrap(new)
                  IN  IF st.start.file_id # n.file_id \/ st.old.page_id + 1 # n.page_id
                      THEN LET w == write_entry(st, st.start, st.old, st.start_idx)
                           IN  [w EXCEPT !.start = n, !.start_idx = i, !.old = n]
                      ELSE [st EXCEPT !.old = n]
             ELSE st

RECURSIVE ScanRange(_, _, _, _)
\* The iterations lo, lo + 1, ..., hi - 1 of the loop, in this order
\* (split in halves to keep the depth of the evaluation logarithmic)
ScanRange(d, st, lo, hi) ==
    IF lo >= hi THEN st
    ELSE IF hi = lo + 1 THEN ScanPage(d, st, lo)
    ELSE LET mid  == (lo + hi) \div 2
             left == ScanRange(d, st, lo, mid)
         IN  IF left.panic THEN left ELSE ScanRange(d, left, mid, hi)

\* The scan of build (the None arm of the match), without the cache
Scan(d) ==
    LET num_pages == DataLen(d) \div PAGE_SIZE
        first     == parse_ptr(d, 0)
    IN  IF ~IsSome(first)
        THEN [panic |-> TRUE]
        ELSE LET st0 == [panic |-> FALSE,
                         idx |-> <<>>,
                         outer_level_entries |-> num_pages \div DIVISOR,
                         divisor |-> DIVISOR,
                         max_page_ids |-> <<>>,
                         start |-> Unwrap(first),
                         old |-> Unwrap(first),
                         start_idx |-> 0]
                 st1 == ScanRange(d, st0, 1, num_pages)
                 st2 == IF st1.panic THEN st1
                        ELSE write_entry(st1, st1.start, st1.old, st1.start_idx)
             IN  IF st2.panic
                 THEN [panic |-> TRUE]
                 ELSE [panic |-> FALSE,
                       index |-> [idx |-> st2.idx,
                                  outer_level_entries |-> st2.outer_level_entries,
                                  divisor |-> st2.divisor,
                                  max_page_ids |-> st2.max_page_ids]]

\* try_load_cache: the stored index when the cache file exists
try_load_cache(files, name) ==
    IF name \in DOMAIN files THEN Some(files[name]) ELSE None

\* write_cache
write_cache(files, name, idx) ==
    [n \in DOMAIN files \cup {name} |-> IF n = name THEN idx ELSE files[n]]

\* MTFBackupIndex::build: [panic, index, cache]
build(d, files) ==
    LET cn == cache_name(d)
    IN  IF cn.panic
        THEN [panic |-> TRUE, index |-> <<>>, cache |-> files]
        ELSE LET loaded == try_load_cache(files, cn.name)
             IN  IF IsSome(loaded)
                 THEN [panic |-> FALSE, index |-> Unwrap(loaded), cache |-> files]
                 ELSE LET s == Scan(d)
                      IN  IF s.panic
                          THEN [panic |-> TRUE, index |-> <<>>, cache |-> files]
                          ELSE [panic |-> FALSE, index |-> s.index,
                                cache |-> write_cache(files, cn.name, s.index)]

\* for entry in entries: the first entry that holds page_id
RECURSIVE FindEntry(_, _, _)
FindEntry(entries, k, page_id) ==
    IF k > Len(entries) THEN None
    ELSE IF entries[k].start <= page_id /\ entries[k].stop >= page_id
         THEN Some(entries[k].base + page_id - entries[k].start)
         ELSE FindEntry(entries, k + 1, page_id)

RECURSIVE LookupLoop(_, _, _)
\* The loop of lookup at outer_idx. `outer_idx -= 1` at zero and
\* outer_entries[outer_idx] past the end both panic.
LookupLoop(outer_entries, outer_idx, page_id) ==
    IF outer_idx < 0 \/ outer_idx >= Len(outer_entries)
    THEN [panic |-> TRUE, ret |-> None]
    ELSE IF outer_entries[outer_idx + 1] = <<>>
         THEN LookupLoop(outer_entries, outer_idx - 1, page_id)
         ELSE LET found == FindEntry(outer_entries[outer_idx + 1], 1, page_id)
              IN  IF IsSome(found) THEN [panic |-> FALSE, ret |-> found]
                  ELSE IF outer_idx = 0 THEN [panic |-> FALSE, ret |-> None]
                  ELSE LookupLoop(outer_entries, outer_idx - 1, page_id)

\* MTFBackupIndex::lookup: [panic, ret]
lookup(ix, p) ==
    IF p.file_id - 1 < 0 \/ p.file_id - 1 >= Len(ix.idx)
    THEN [panic |-> TRUE, ret |-> None]
    ELSE LookupLoop(ix.idx[p.file_id], p.page_id \div ix.divisor, p.page_id)

\* MTFPageProvider::get: [panic, ret], ret the page found
get(d, ix, p) ==
    LET l == lookup(ix, p)
    IN  IF l.panic THEN [panic |-> TRUE, ret |-> None]
        ELSE IF ~IsSome(l.ret) THEN [panic |-> FALSE, ret |-> None]
        ELSE LET i == Unwrap(l.ret)
             IN  IF (i + 1) * PAGE_SIZE <= DataLen(d)
                 THEN (IF d[i + 1] # p
                       THEN [panic |-> TRUE, ret |-> None]
                       ELSE [panic |-> FALSE, ret |-> Some(d[i + 1])])
                 ELSE [panic |-> FALSE, ret |-> None]

---------------------------------------------------------------------------
(* src/src/lib.rs: bytes, integers, strings *)

\* Result<T>: Ok(v), Err(e) of the fallible functions; Panic(e) for a panic
Ok(v) == [k |-> "Ok", v |-> v, e |-> ""]

Err(e) == [k |-> "Err", v |-> <<>>, e |-> e]

Panic(e) == [k |-> "Panic", v |-> <<>>, e |-> e]

IsOk(r) == r.k = "Ok"

\* A position past every input: a cursor may be set there, every read there fails
POS_INF == 1000000

\* Cursor::read_exact(n) at position pos succeeds iff n bytes remain
CanRead(m, pos, n) == pos + n <= Len(m)

\* the n bytes at position pos
BytesAt(m, pos, n) == SubSeq(m, pos + 1, pos + n)

\* read_u16::<LittleEndian> of the two bytes at offset k of buffer b
U16(b, k) == b[k + 1] + 256 * b[k + 2]

AllZero(b) == \A k \in 1..Len(b) : b[k] = 0

RECURSIVE Xor(_, _)
\* a ^ b
Xor(a, b) ==
    IF a = 0 THEN b
    ELSE IF b = 0 THEN a
    ELSE ((a + b) % 2) + 2 * Xor(a \div 2, b \div 2)

RECURSIVE BitAnd(_, _)
\* a & b
BitAnd(a, b) ==
    IF a = 0 \/ b = 0 THEN 0
    ELSE ((a % 2) * (b % 2)) + 2 * BitAnd(a \div 2, b \div 2)

\* bitflags from_bits on a little-endian u16/u32: Some iff no bit outside
\* the defined ones is set; mask gives the defined bits byte by byte
FromBits(b, mask) == \A k \in 1..Len(b) : BitAnd(b[k], 255 - mask[k]) = 0

RECURSIVE ChecksumLoop(_, _, _, _)
\* while let Ok(new_word) = header_data.read_u16() { checksum ^= word; word = new_word; }
ChecksumLoop(b, k, checksum, word) ==
    IF k + 2 > Len(b) THEN checksum
    ELSE ChecksumLoop(b, k + 2, Xor(checksum, word), U16(b, k))

\* The word stored at the end of the header taken for the computed checksum
Checksum_stored(b) == U16(b, Len(b) - 2)

\* the checksum computed over a 52-byte or 22-byte header
Checksum(b) == ChecksumLoop(b, 0, 0, 0)

RECURSIVE Utf8Decode(_, _, _)
\* String::from_utf8: the chars of the bytes b from index k on, appended to
\* acc; <<-1>> when the bytes are not valid UTF-8
Utf8Decode(b, k, acc) ==
    IF k > Len(b) THEN acc
    ELSE LET c0 == b[k]
             n  == Len(b) - k
             Cont(j) == j <= Len(b) /\ b[j] >= 128 /\ b[j] <= 191
         IN  IF c0 < 128 THEN Utf8Decode(b, k + 1, Append(acc, c0))
             ELSE IF c0 >= 194 /\ c0 <= 223 /\ Cont(k + 1)
                  THEN Utf8Decode(b, k + 2, Append(acc, (c0 - 192) * 64 + (b[k + 1] - 128)))
             ELSE IF c0 >= 224 /\ c0 <= 239 /\ Cont(k + 1) /\ Cont(k + 2)
                     /\ (c0 = 224 => b[k + 1] >= 160)
                     /\ (c0 = 237 => b[k + 1] <= 159)
                  THEN Utf8Decode(b, k + 3,
                          Append(acc, (c0 - 224) * 4096 + (b[k + 1] - 128) * 64 + (b[k + 2] - 128)))
             ELSE IF c0 >= 240 /\ c0 <= 244 /\ Cont(k + 1) /\ Cont(k + 2) /\ Cont(k + 3)
                     /\ (c0 = 240 => b[k + 1] >= 144)
                     /\ (c0 = 244 => b[k + 1] <= 143)
                  THEN Utf8Decode(b, k + 4,
                          Append(acc, (c0 - 240) * 262144 + (b[k + 1] - 128) * 4096
                                      + (b[k + 2] - 128) * 64 + (b[k + 3] - 128)))
             ELSE <<-1>>

\* String::from_utf8(bytes): a String is the sequence of its chars
from_utf8(b) ==
    LET s == Utf8Decode(b, 1, <<>>)
    IN  IF s = <<-1>> THEN Err("Encoding") ELSE Ok(s)

RECURSIVE Utf16Decode(_, _, _)
\* String::from_utf16 over the code units u (chunks_exact(2) of the bytes)
Utf16Decode(b, k, acc) ==
    IF k + 1 > Len(b) THEN acc
    ELSE LET u == U16(b, k - 1)
         IN  IF u < 55296 \/ u > 57343 THEN Utf16Decode(b, k + 2, Append(acc, u))
             ELSE IF u <= 56319 /\ k + 3 <= Len(b)
                     /\ U16(b, k + 1) >= 56320 /\ U16(b, k + 1) <= 57343
                  THEN Utf16Decode(b, k + 4,
                          Append(acc, 65536 + (u - 55296) * 1024 + (U16(b, k + 1) - 56320)))
             ELSE <<-1>>

from_utf16(b) ==
    LET s == Utf16Decode(b, 1, <<>>)
    IN  IF s = <<-1>> THEN Err("Encoding") ELSE Ok(s)

\* The ten DBLK kind tags: the four ASCII bytes as stored
TAG_TAPE == <<84, 65, 80, 69>>

TAG_SSET == <<83, 83, 69, 84>>

TAG_VOLB == <<86, 79, 76, 66>>

TAG_DIRB == <<68, 73, 82, 66>>

TAG_FILE == <<70, 73, 76, 69>>

TAG_CFIL == <<67, 70, 73, 76>>

TAG_ESPB == <<69, 83, 80, 66>>

TAG_ESET == <<69, 83, 69, 84>>

TAG_EOTM == <<69, 79, 84, 77>>

TAG_SFMB == <<83, 70, 77, 66>>

TAG_SPAD == <<83, 80, 65, 68>>

TAG_MQDA == <<77, 81, 68, 65>>

\* DBLKType::parse, on the bytes of the u32 (little endian)
DBLKType_parse(id) ==
    CASE id = TAG_TAPE -> "TAPE"
      [] id = TAG_SSET -> "SSET"
      [] id = TAG_VOLB -> "VOLB"
      [] id = TAG_DIRB -> "DIRB"
      [] id = TAG_FILE -> "FILE"
      [] id = TAG_CFIL -> "CFIL"
      [] id = TAG_ESPB -> "ESPB"
      [] id = TAG_ESET -> "ESET"
      [] id = TAG_EOTM -> "EOTM"
      [] id = TAG_SFMB -> "SFMB"
      [] OTHER -> "UNKNOWN"

\* StringType::parse
StringType_parse(ty) ==
    CASE ty = 0 -> Ok("NO_STRINGS")
      [] ty = 1 -> Ok("ANSI_STR")
      [] ty = 2 -> Ok("UNICODE_STR")
      [] OTHER -> Err("BadTag")

\* StringType::bytes_to_string
bytes_to_string(ty, b) ==
    CASE ty = "NO_STRINGS" -> Err("NoStrings")
      [] ty = "ANSI_STR" -> from_utf8(b)
      [] ty = "UNICODE_STR" -> from_utf16(b)

\* MediaBasedCatalogType::parse
MediaBasedCatalogType_parse(ty) ==
    CASE ty = 0 -> Ok("NONE")
      [] ty = 1 -> Ok("TYPE_1")
      [] ty = 2 -> Ok("TYPE_2")
      [] ty = 3 -> Ok("UNKNOWN3")
      [] OTHER -> Err("BadTag")

\* The defined bits of the bitflags types, byte by byte
MASK_CommonBlockAttrsAny == <<13, 0, 0, 0>>

MASK_CommonBlockAttrsTAPE == <<13, 0, 3, 0>>

MASK_CommonBlockAttrsSSET == <<13, 0, 3, 0>>

MASK_CommonBlockAttrsESET == <<13, 0, 7, 0>>

MASK_CommonBlockAttrsEOTM == <<13, 0, 3, 0>>

MASK_TapeAttrs == <<7, 0, 0, 0>>

MASK_SSetAttrs == <<63, 0, 0, 0>>

MASK_VolbAttrs == <<63, 0, 0, 0>>

MASK_FileSystemAttributes == <<15, 0>>

MASK_MediaFormatAttributes == <<255, 1>>

\* CommonBlockAttrs::parse
CommonBlockAttrs_parse(attrs, ty) ==
    LET mask == CASE ty = "TAPE" -> MASK_CommonBlockAttrsTAPE
                  [] ty = "SSET" -> MASK_CommonBlockAttrsSSET
                  [] ty = "ESET" -> MASK_CommonBlockAttrsESET
                  [] ty = "EOTM" -> MASK_CommonBlockAttrsEOTM
                  [] OTHER -> MASK_CommonBlockAttrsAny
    IN  IF FromBits(attrs, mask) THEN Ok(attrs) ELSE Err("BadFlags")

\* OS::parse
OS_parse(os) ==
    CASE os = 1 -> "NetWare"
      [] os = 13 -> "NetWareSMS"
      [] os = 14 -> "WindowsNT"
      [] os = 24 -> "DOS_Windows3_X"
      [] os = 25 -> "OS2"
      [] os = 26 -> "Windows95"
      [] os = 27 -> "Macintosh"
      [] os = 28 -> "Unix"
      [] os >= 33 /\ os <= 127 -> "ToBeAssigned"
      [] OTHER -> "VendorSpecific"

\* TapeAddress::parse of the u32 at offset k of buffer b
TapeAddress_parse(b, k, base) == [size |-> U16(b, k), offset |-> U16(b, k + 2), base |-> base]

\* TapeAddress::read_str: Ok(Some(string)), Ok(None) or Err; the cursor
\* position is restored
read_str(ta, ty, m) ==
    IF ta.size > 0
    THEN IF ~CanRead(m, ta.base + ta.offset, ta.size) THEN Err("Io")
         ELSE LET r == bytes_to_string(ty, BytesAt(m, ta.base + ta.offset, ta.size))
              IN  IF IsOk(r) THEN Ok(Some(r.v)) ELSE r
    ELSE Ok(None)

\* DateTime::parse of 5 bytes
DateTime_parse(d) ==
    [year   |-> d[1] * 64 + d[2] \div 4,
     month  |-> (d[2] % 4) * 4 + d[3] \div 64,
     day    |-> (d[3] \div 2) % 32,
     hour   |-> (d[3] % 2) * 16 + d[4] \div 16,
     minute |-> (d[4] % 16) * 4 + d[5] \div 64,
     second |-> d[5] % 64]

\* SoftFileMarkBlockSize::bytes
SoftFileMarkBlockSize_bytes(blocks) == 512 * blocks

---------------------------------------------------------------------------
(* src/src/lib.rs: the DBLK codec *)

\* The size of the common block header
HEADER_SIZE == 52

\* The sizes of the bodies DBLK::parse reads field by field
TAPE_BODY_SIZE == 42

SSET_BODY_SIZE == 46

VOLB_BODY_SIZE == 21

\* The bytes left at position p, at most n of them
Avail(m, p, n) == BytesAt(m, p, Min(n, IF Len(m) > p THEN Len(m) - p ELSE 0))

\* DBLK::parse, the TAPE arm. b: the bytes read from the body; the reads
\* happen in the order of the source, the first that fails ends the parse
TAPE_body(m, base, header) ==
    LET p  == base + HEADER_SIZE
        b  == Avail(m, p, TAPE_BODY_SIZE)
        n  == Len(b)
        ty == header.string_type
        s1 == read_str(TapeAddress_parse(b, 16, base), ty, m)
        s2 == read_str(TapeAddress_parse(b, 20, base), ty, m)
        s3 == read_str(TapeAddress_parse(b, 24, base), ty, m)
        s4 == read_str(TapeAddress_parse(b, 28, base), ty, m)
    IN  IF ~AllZero(header.format_logical_address) THEN Panic("Invariant")
        ELSE IF ~AllZero(header.control_block_id) THEN Panic("Invariant")
        ELSE IF n < 8 THEN Err("Io")
        ELSE IF ~FromBits(SubSeq(b, 5, 8), MASK_TapeAttrs) THEN Err("BadFlags")
        ELSE IF n < 16 THEN Err("Io")
        ELSE IF ~IsOk(MediaBasedCatalogType_parse(U16(b, 14))) THEN Err("BadTag")
        ELSE IF n < 20 THEN Err("Io")
        ELSE IF ~IsOk(s1) THEN s1
        ELSE IF n < 24 THEN Err("Io")
        ELSE IF ~IsOk(s2) THEN s2
        ELSE IF n < 28 THEN Err("Io")
        ELSE IF ~IsOk(s3) THEN s3
        ELSE IF n < 32 THEN Err("Io")
        ELSE IF ~IsOk(s4) THEN s4
        ELSE IF n < TAPE_BODY_SIZE THEN Err("Io")
        ELSE Ok([pos  |-> p + TAPE_BODY_SIZE,
                 body |-> [ty |-> "TAPE",
                           media_family_id |-> SubSeq(b, 1, 4),
                           tape_attrs |-> SubSeq(b, 5, 8),
                           media_sequence_number |-> U16(b, 8),
                           password_encryption_algorithm |-> U16(b, 10),
                           soft_filemark_block_size |-> U16(b, 12),
                           media_based_catalog_type |-> MediaBasedCatalogType_parse(U16(b, 14)).v,
                           media_name |-> s1.v,
                           media_description |-> s2.v,
                           media_password |-> s3.v,
                           software_name |-> s4.v,
                           format_logical_block_size |-> U16(b, 32),
                           software_vendor_id |-> U16(b, 34),
                           media_date |-> DateTime_parse(SubSeq(b, 37, 41)),
                           major_version |-> b[42]]])

\* DBLK::parse, the SSET arm
SSET_body(m, base, header) ==
    LET p  == base + HEADER_SIZE
        b  == Avail(m, p, SSET_BODY_SIZE)
        n  == Len(b)
        ty == header.string_type
        s1 == read_str(TapeAddress_parse(b, 12, base), ty, m)
        s2 == read_str(TapeAddress_parse(b, 16, base), ty, m)
        s3 == read_str(TapeAddress_parse(b, 20, base), ty, m)
        s4 == read_str(TapeAddress_parse(b, 24, base), ty, m)
    IN  IF n < 4 THEN Err("Io")
        ELSE IF ~FromBits(SubSeq(b, 1, 4), MASK_SSetAttrs) THEN Err("BadFlags")
        ELSE IF n < 16 THEN Err("Io")
        ELSE IF ~IsOk(s1) THEN s1
        ELSE IF n < 20 THEN Err("Io")
        ELSE IF ~IsOk(s2) THEN s2
        ELSE IF n < 24 THEN Err("Io")
        ELSE IF ~IsOk(s3) THEN s3
        ELSE IF n < 28 THEN Err("Io")
        ELSE IF ~IsOk(s4) THEN s4
        ELSE IF n < SSET_BODY_SIZE THEN Err("Io")
        ELSE Ok([pos  |-> p + SSET_BODY_SIZE,
                 body |-> [ty |-> "SSET",
                           attrs |-> SubSeq(b, 1, 4),
                           password_encryption_algorithm |-> U16(b, 4),
                           software_compression_algorithm |-> U16(b, 6),
                           software_vendor_id |-> U16(b, 8),
                           data_set_number |-> U16(b, 10),
                           data_set_name |-> s1.v,
                           data_set_description |-> s2.v,
                           data_set_password |-> s3.v,
                           username |-> s4.v,
                           physical_block_address |-> SubSeq(b, 29, 36),
                           write_date |-> DateTime_parse(SubSeq(b, 37, 41)),
                           software_major_version |-> b[42],
                           software_minor_version |-> b[43],
                           timezone |-> IF b[44] >= 128 THEN b[44] - 256 ELSE b[44],
                           minor_version |-> b[45],
                           media_catalog_version |-> b[46]]])

\* DBLK::parse, the VOLB arm
VOLB_body(m, base, header) ==
    LET p  == base + HEADER_SIZE
        b  == Avail(m, p, VOLB_BODY_SIZE)
        n  == Len(b)
        ty == header.string_type
        s1 == read_str(TapeAddress_parse(b, 4, base), ty, m)
        s2 == read_str(TapeAddress_parse(b, 8, base), ty, m)
        s3 == read_str(TapeAddress_parse(b, 12, base), ty, m)
    IN  IF n < 4 THEN Err("Io")
        ELSE IF ~FromBits(SubSeq(b, 1, 4), MASK_VolbAttrs) THEN Err("BadFlags")
        ELSE IF n < 8 THEN Err("Io")
        ELSE IF ~IsOk(s1) THEN s1
        ELSE IF n < 12 THEN Err("Io")
        ELSE IF ~IsOk(s2) THEN s2
        ELSE IF n < 16 THEN Err("Io")
        ELSE IF ~IsOk(s3) THEN s3
        ELSE IF n < VOLB_BODY_SIZE THEN Err("Io")
        ELSE Ok([pos  |-> p + VOLB_BODY_SIZE,
                 body |-> [ty |-> "VOLB",
                           attrs |-> SubSeq(b, 1, 4),
                           device_name |-> s1.v,
                           volume_name |-> s2.v,
                           machine_name |-> s3.v,
                           write_date |-> DateTime_parse(SubSeq(b, 17, 21))]])

\* LittleEndian::read_u32_into: the u32 values of b, each as its 4 bytes
U32Entries(b) == [k \in 1..(Len(b) \div 4) |-> SubSeq(b, 4 * k - 3, 4 * k)]

\* The SFMB arm with a block size of 1 taken for granted when no TAPE block
\* was decoded
SFMB_body_guess(m, base, dsets) ==
    LET p     == base + HEADER_SIZE
        bytes == IF IsSome(dsets.tape)
                 THEN SoftFileMarkBlockSize_bytes(
                          Unwrap(dsets.tape).body.soft_filemark_block_size)
                 ELSE SoftFileMarkBlockSize_bytes(1)
    IN  IF ~CanRead(m, p, 8) THEN Err("Io")
        ELSE IF bytes < 60 THEN Panic("Overflow")
        ELSE IF ~CanRead(m, p + 8, bytes - 60) THEN Err("Io")
        ELSE Ok([pos  |-> p + 8 + (bytes - 60),
                 body |-> [ty |-> "SFMB",
                           number_of_entries |-> BytesAt(m, p, 4),
                           used_entries |-> BytesAt(m, p + 4, 4),
                           entries |-> U32Entries(BytesAt(m, p + 8, bytes - 60))]])

\* DBLK::parse, the SFMB arm. 60 = sizeof(common header = 52) + 2 * u32;
\* bytes() - 60 underflows when the TAPE block carries a block size of 0
SFMB_body(m, base, dsets) ==
    LET p     == base + HEADER_SIZE
        bytes == SoftFileMarkBlockSize_bytes(Unwrap(dsets.tape).body.soft_filemark_block_size)
    IN  IF ~CanRead(m, p, 8) THEN Err("Io")
        ELSE IF ~IsSome(dsets.tape) THEN Err("Dependency")
        ELSE IF bytes < 60 THEN Panic("Overflow")
        ELSE IF ~CanRead(m, p + 8, bytes - 60) THEN Err("Io")
        ELSE Ok([pos  |-> p + 8 + (bytes - 60),
                 body |-> [ty |-> "SFMB",
                           number_of_entries |-> BytesAt(m, p, 4),
                           used_entries |-> BytesAt(m, p + 4, 4),
                           entries |-> U32Entries(BytesAt(m, p + 8, bytes - 60))]])

\* DBLK::parse, the arm of an unknown tag
UNKNOWN_body(base, id) ==
    LET s == from_utf8(id)
    IN  IF ~IsOk(s) THEN s
        ELSE Ok([pos |-> base + HEADER_SIZE, body |-> [ty |-> "UNKNOWN", id |-> s.v]])

\* DBLK::parse with the cursor at base: Ok([dblk, pos]) with pos the cursor
\* after the body, Err(e) or Panic(e)
DBLK_parse(m, base, dsets) ==
    IF ~CanRead(m, base, HEADER_SIZE) THEN Err("Io")
    ELSE LET h      == BytesAt(m, base, HEADER_SIZE)
             id     == SubSeq(h, 1, 4)
             ty     == DBLKType_parse(id)
             attrs  == CommonBlockAttrs_parse(SubSeq(h, 5, 8), ty)
             strty  == StringType_parse(h[49])
             header == [attrs |-> SubSeq(h, 5, 8),
                        offset_to_first_event |-> U16(h, 8),
                        osid |-> OS_parse(h[11]),
                        osver |-> h[12],
                        display_size |-> SubSeq(h, 13, 20),
                        format_logical_address |-> SubSeq(h, 21, 28),
                        control_block_id |-> SubSeq(h, 37, 40),
                        os_specific_data |-> TapeAddress_parse(h, 44, base),
                        string_type |-> strty.v,
                        header_checksum |-> U16(h, 50)]
             body   == CASE ty = "TAPE" -> TAPE_body(m, base, header)
                         [] ty = "SSET" -> SSET_body(m, base, header)
                         [] ty = "VOLB" -> VOLB_body(m, base, header)
                         [] ty = "SFMB" -> SFMB_body(m, base, dsets)
                         [] ty = "UNKNOWN" -> UNKNOWN_body(base, id)
                         [] OTHER -> Panic("Unimplemented")
         IN  IF ~IsOk(attrs) THEN attrs
             ELSE IF ~IsOk(strty) THEN strty
             ELSE IF header.header_checksum # Checksum(h) THEN Panic("Checksum")
             ELSE IF ~IsOk(body) THEN body
             ELSE Ok([dblk |-> [header |-> header, body |-> body.v.body], pos |-> body.v.pos])

NoSets == [tape |-> None, set |-> None, vol |-> None, dir |-> None, file |-> None,
           soft_mark |-> None]

\* DBLKSets::update
DBLKSets_update(dsets, dblk) ==
    CASE dblk.body.ty = "TAPE" -> [dsets EXCEPT !.tape = Some(dblk)]
      [] dblk.body.ty = "SSET" -> [dsets EXCEPT !.set = Some(dblk)]
      [] dblk.body.ty = "VOLB" -> [dsets EXCEPT !.vol = Some(dblk)]
      [] dblk.body.ty = "DIRB" -> [dsets EXCEPT !.dir = Some(dblk)]
      [] dblk.body.ty = "FILE" -> [dsets EXCEPT !.file = Some(dblk)]
      [] dblk.body.ty = "SFMB" -> [dsets EXCEPT !.soft_mark = Some(dblk)]
      [] OTHER -> dsets

---------------------------------------------------------------------------
(* src/src/lib.rs: the stream codec and the DBLK iterator *)

\* The size of a stream header
STREAM_HEADER_SIZE == 22

\* The ids that Stream::parse takes for the start of the next DBLK
DBLK_TAGS == {TAG_TAPE, TAG_SSET, TAG_VOLB, TAG_DIRB, TAG_FILE, TAG_CFIL, TAG_ESPB,
              TAG_ESET, TAG_EOTM, TAG_SFMB}

\* 2^24
TOP_SPAN == 16777216

\* read_u64::<LittleEndian> of the 8 bytes b. A u64 is held as v for a value
\* v below POS_INF, as -n for the value 2^64 - n with n <= 2^24, and as
\* POS_INF for every value in between
U64(b) ==
    LET low == b[1] + 256 * b[2] + 65536 * b[3]
    IN  IF AllZero(SubSeq(b, 4, 8)) THEN Min(low, POS_INF)
        ELSE IF \A k \in 4..8 : b[k] = 255 THEN low - TOP_SPAN
        ELSE POS_INF

\* a + b on u64 does not fit: one of them is 2^64 - n and the other at least n
Overflows(a, b) == (a < 0 \/ b < 0) /\ a + b >= 0

\* A cursor position as the iterator and the reads see it: a position in
\* the upper half of u64 is far behind the end of the input
Far(pos) == IF pos < 0 THEN POS_INF ELSE pos

\* Stream::parse with the test for a DBLK tag moved behind the flags and
\* the checksum
Stream_parse_tag_last(m, orig) ==
    IF ~CanRead(m, orig, STREAM_HEADER_SIZE) THEN Err("Io")
    ELSE LET h  == BytesAt(m, orig, STREAM_HEADER_SIZE)
             id == from_utf8(SubSeq(h, 1, 4))
         IN  IF ~IsOk(id) THEN id
             ELSE IF ~FromBits(SubSeq(h, 5, 6), MASK_FileSystemAttributes) THEN Err("BadFlags")
             ELSE IF ~FromBits(SubSeq(h, 7, 8), MASK_MediaFormatAttributes) THEN Err("BadFlags")
             ELSE IF U16(h, 20) # Checksum(h) THEN Panic("Checksum")
             ELSE IF id.v \in DBLK_TAGS THEN Ok([stream |-> None, pos |-> orig])
             ELSE Ok([stream |-> Some([header |-> [id |-> id.v,
                                                   file_system_attributes |-> SubSeq(h, 5, 6),
                                                   media_format_attributes |-> SubSeq(h, 7, 8),
                                                   length |-> U64(SubSeq(h, 9, 16)),
                                                   encryption_algorithm |-> U16(h, 16),
                                                   compression_algorithm |-> U16(h, 18)],
                                       base |-> orig + STREAM_HEADER_SIZE]),
                      pos |-> orig + STREAM_HEADER_SIZE])

\* Stream::parse with the cursor at orig: Ok([stream, pos]) with stream
\* None for a DBLK tag (the cursor is set back to orig), Err(e) or Panic(e)
Stream_parse(m, orig) ==
    IF ~CanRead(m, orig, STREAM_HEADER_SIZE) THEN Err("Io")
    ELSE LET h    == BytesAt(m, orig, STREAM_HEADER_SIZE)
             base == orig + STREAM_HEADER_SIZE
             id   == from_utf8(SubSeq(h, 1, 4))
             header == [id |-> id.v,
                        file_system_attributes |-> SubSeq(h, 5, 6),
                        media_format_attributes |-> SubSeq(h, 7, 8),
                        length |-> U64(SubSeq(h, 9, 16)),
                        encryption_algorithm |-> U16(h, 16),
                        compression_algorithm |-> U16(h, 18)]
         IN  IF ~IsOk(id) THEN id
             ELSE IF id.v \in DBLK_TAGS THEN Ok([stream |-> None, pos |-> orig])
             ELSE IF ~FromBits(SubSeq(h, 5, 6), MASK_FileSystemAttributes) THEN Err("BadFlags")
             ELSE IF ~FromBits(SubSeq(h, 7, 8), MASK_MediaFormatAttributes) THEN Err("BadFlags")
             ELSE IF U16(h, 20) # Checksum(h) THEN Panic("Checksum")
             ELSE Ok([stream |-> Some([header |-> header, base |-> base]), pos |-> base])

\* The padding of Stream::parse_all dropped the test left_over > 0
padding_always(new) == 4 - (new % 4)

\* let left_over = new % 4; let padding = if left_over > 0 { 4 - left_over } else { 0 };
padding(new) == IF new % 4 > 0 THEN 4 - (new % 4) ELSE 0

RECURSIVE Stream_parse_loop(_, _, _)
\* The loop of Stream::parse_all with the cursor at pos and the streams read so far.
\* Cursor::set_position sets any position, so the test
\* data.position() != (new + padding) that follows it never holds.
\* old_position + length and new + padding are u64 additions: one that does
\* not fit panics in a build with overflow checks and wraps in one without.
Stream_parse_loop(m, pos, streams) ==
    LET r == Stream_parse(m, pos)
    IN  IF ~IsOk(r) THEN r
        ELSE IF ~IsSome(r.v.stream) THEN Ok([streams |-> <<>>, pos |-> r.v.pos])
        ELSE LET new_stream   == Unwrap(r.v.stream)
                 old_position == r.v.pos
                 new          == old_position + new_stream.header.length
             IN  IF overflow_checks
                    /\ (\/ Overflows(old_position, new_stream.header.length)
                        \/ Overflows(new, padding(new)))
                 THEN Panic("Overflow")
                 ELSE IF new + padding(new) = old_position
                 THEN \* We wont progress from here
                      Ok([streams |-> streams, pos |-> old_position])
                 ELSE IF new_stream.header.id = TAG_SPAD
                 THEN Ok([streams |-> Append(streams, new_stream),
                          pos |-> Far(new + padding(new))])
                 ELSE Stream_parse_loop(m, Far(new + padding(new)),
                                        Append(streams, new_stream))

\* Stream::parse_all with the cursor at pos: Ok([streams, pos]), Err(e) or Panic(e)
Stream_parse_all(m, pos) == Stream_parse_loop(m, pos, <<>>)

\* Stream::data: the borrowed slice [start, end) of the input, end =
\* data.len().min(base + length). base + length is a u64 addition; when it
\* wraps, end lies before start and &data[start..end] panics
Stream_data(stream, m) ==
    LET end == Min(Len(m), Far(stream.base + stream.header.length))
    IN  IF Overflows(stream.base, stream.header.length) /\ overflow_checks
        THEN Panic("Overflow")
        ELSE IF end < stream.base THEN Panic("SliceIndex")
        ELSE Ok([start |-> stream.base, end |-> end])

\* StreamWithData::from_stream
from_stream(stream, m) == [stream |-> stream, data |-> Stream_data(stream, m).v]

\* r.unwrap() of a call that did not return Ok: the panic, with what the
\* callee did (how = "Err": it returned an error value, "Panic": it panicked)
\* and the callee (at)
Unwound(r, at) == [k |-> "Panic", v |-> <<>>, e |-> r.e, how |-> r.k, at |-> at]

\* StreamWithData::parse_all, from the result r of Stream::parse_all on:
\* the unwrap turns an Err into a panic
StreamWithData_collect(m, r) ==
    IF ~IsOk(r) THEN Unwound(r, "Stream::parse_all")
    ELSE IF \E k \in 1..Len(r.v.streams) : ~IsOk(Stream_data(r.v.streams[k], m))
    THEN LET k == CHOOSE k \in 1..Len(r.v.streams) : ~IsOk(Stream_data(r.v.streams[k], m))
         IN  Unwound(Stream_data(r.v.streams[k], m), "Stream::data")
    ELSE Ok([streams |-> [k \in 1..Len(r.v.streams) |-> from_stream(r.v.streams[k], m)],
             pos |-> r.v.pos])

\* StreamWithData::parse_all with the cursor at pos
StreamWithData_parse_all(m, pos) == StreamWithData_collect(m, Stream_parse_all(m, pos))

\* DBLKWithStreams::parse, from the result st of StreamWithData::parse_all
\* on. sets is updated before the streams are read, so a panic there carries
\* the updated sets as v
DBLKWithStreams_make(dsets, dblock, st) ==
    IF ~IsOk(st) THEN [st EXCEPT !.v = DBLKSets_update(dsets, dblock)]
    ELSE Ok([dblk |-> dblock, streams |-> st.v.streams,
             sets |-> DBLKSets_update(dsets, dblock), pos |-> st.v.pos])

\* DBLKWithStreams::parse, from the result d of DBLK::parse on
DBLKWithStreams_streams(m, dblk_position, dsets, d) ==
    IF ~IsOk(d) THEN Unwound(d, "DBLK::parse")
    ELSE DBLKWithStreams_make(
            dsets, d.v.dblk,
            StreamWithData_parse_all(
                m, dblk_position + d.v.dblk.header.offset_to_first_event))

\* DBLKWithStreams::parse with the cursor at dblk_position:
\* Ok([dblk, streams, sets, pos]) or a panic
DBLKWithStreams_parse(m, dblk_position, dsets) ==
    DBLKWithStreams_streams(m, dblk_position, dsets, DBLK_parse(m, dblk_position, dsets))

\* DBLKIterator::next, from the result r of DBLKWithStreams::parse on
DBLKIterator_moved(it, r) ==
    IF ~IsOk(r)
    THEN [k |-> "Panic", item |-> None, cursor |-> it.position,
          position |-> it.position,
          sets |-> IF r.at = "DBLK::parse" THEN it.sets ELSE r.v,
          e |-> r.e, how |-> r.how, at |-> r.at]
    ELSE IF it.position # r.v.pos
    THEN [k |-> "Some", item |-> Some([dblk |-> r.v.dblk, streams |-> r.v.streams]),
          cursor |-> r.v.pos, position |-> r.v.pos, sets |-> r.v.sets,
          e |-> "", how |-> "", at |-> ""]
    ELSE [k |-> "None", item |-> None,
          cursor |-> r.v.pos, position |-> it.position, sets |-> r.v.sets,
          e |-> "", how |-> "", at |-> ""]

\* DBLKIterator::next on the iterator it = [position, sets]:
\* [k, item, cursor, position, sets] with k = "Some" (item is yielded),
\* "None" or "Panic"; cursor is the position of the local cursor at the end
DBLKIterator_next(m, it) ==
    DBLKIterator_moved(it, DBLKWithStreams_parse(m, it.position, it.sets))

---------------------------------------------------------------------------
(* The payloads and the calls of SpecIndex *)

\* At most MaxSegs segments make up a payload
MaxSegs == 3

\* A long segment spans more than one bucket of DIVISOR page ids
LongLen == DIVISOR + 6

\* A segment <<file_id, page_id, n>>: n consecutive pages of one file that
\* start at page_id; file_id = 0 is a stretch of uninitialised pages
ShortSegs == {<<1, 5, 2>>, <<1, 7, 2>>, <<1, 12, 2>>, <<2, 7, 1>>, <<0, 0, 1>>}

LongSegs == {<<1, 5, LongLen>>, <<1, 7, LongLen>>, <<2, DIVISOR, LongLen>>}

Segments == ShortSegs \cup LongSegs

SegPages(s) == [k \in 1..s[3] |-> PagePointer(s[1], IF s[1] = 0 THEN 0 ELSE s[2] + k - 1)]

RECURSIVE Flatten(_)
Flatten(segs) == IF segs = <<>> THEN <<>> ELSE SegPages(Head(segs)) \o Flatten(Tail(segs))

SegLists == UNION {[1..n -> Segments] : n \in 1..MaxSegs}

\* The pointers asked of lookup and get
LookupFiles == 0..3

LookupPageIds == {0, 4, 5, 6, 7, 8, 9, 10, 12, 13, 14, 1023, 1024, 1030, 1034, 1035,
                  1036, 1037, 2000, 2047, 2048, 2053, 2054, 3000, 4000}

LookupPtrs == {PagePointer(f, p) : f \in LookupFiles, p \in LookupPageIds}

NoCall == [op |-> "none", panic |-> FALSE, ret |-> None]

NoOut == [k |-> "Start", item |-> None, cursor |-> 0, e |-> "", how |-> "", at |-> ""]

\* No process builds at the same time as another in SpecIndex and SpecMTF
IdleCache ==
    /\ builders = <<>>
    /\ disk = <<>>

\* The reader is not used in SpecIndex
IdleMTF ==
    /\ mmap = <<>>
    /\ position = 0
    /\ sets = NoSets
    /\ out = NoOut
    /\ call = [position |-> 0, sets |-> NoSets]
    /\ starts = <<>>
    /\ overflow_checks = FALSE

InitIndex ==
    /\ \E segs \in SegLists : data = Flatten(segs)
    /\ cache = <<>>
    /\ ipc = "init"
    /\ index = <<>>
    /\ ptr = PagePointer(0, 0)
    /\ res = NoCall
    /\ IdleMTF
    /\ IdleCache

\* MTFPageProvider::from_stream calls build over the payload; a later run of
\* the program over the same payload finds the cache file of the earlier one
Build ==
    /\ ipc \in {"init", "built"}
    /\ res = NoCall
    /\ LET b == build(data, cache)
       IN  /\ ipc' = IF b.panic THEN "panic" ELSE "built"
           /\ index' = b.index
           /\ cache' = b.cache
    /\ res' = NoCall
    /\ UNCHANGED <<data, ptr>>
    /\ UNCHANGED mvars
    /\ UNCHANGED cvars

Lookup ==
    /\ ipc = "built"
    /\ res = NoCall
    /\ \E p \in LookupPtrs :
        /\ ptr' = p
        /\ res' = [op |-> "lookup"] @@ lookup(index, p)
    /\ UNCHANGED <<data, cache, ipc, index>>
    /\ UNCHANGED mvars
    /\ UNCHANGED cvars

Get ==
    /\ ipc = "built"
    /\ res = NoCall
    /\ \E p \in LookupPtrs :
        /\ ptr' = p
        /\ res' = [op |-> "get"] @@ get(data, index, p)
    /\ UNCHANGED <<data, cache, ipc, index>>
    /\ UNCHANGED mvars
    /\ UNCHANGED cvars

\* The caller takes the result; the index is ready for the next call
Return ==
    /\ ipc = "built"
    /\ res # NoCall
    /\ ~res.panic
    /\ res' = NoCall
    /\ ptr' = PagePointer(0, 0)
    /\ UNCHANGED <<data, cache, ipc, index>>
    /\ UNCHANGED mvars
    /\ UNCHANGED cvars

NextIndex == Build \/ Lookup \/ Get \/ Return

SpecIndex == InitIndex /\ [][NextIndex]_vars

---------------------------------------------------------------------------
(* The input files and the calls of SpecMTF *)

\* At most MaxStreams well-formed streams follow a block
MaxStreams == 2

\* The layouts below are the ones DBLK::parse and Stream::parse read
LE16(n) == <<n % 256, (n \div 256) % 256>>

\* The 8 bytes of n, or of 2^64 + n for n < 0
LE64(n) ==
    LET low == IF n < 0 THEN TOP_SPAN + n ELSE n
        up  == IF n < 0 THEN 255 ELSE 0
    IN  <<low % 256, (low \div 256) % 256, (low \div 65536) % 256, up, up, up, up, up>>

Zeros(n) == [k \in 1..n |-> 0]

\* The bytes b of a header followed by its checksum word: the XOR of the
\* words of b (sum = 0) or a word that differs from it (sum > 0)
Sealed(b, sum) == b \o LE16(Xor(Checksum(b \o <<0, 0>>), sum))

\* A tape address: size and offset from the start of the block
TA(size, offset) == LE16(size) \o LE16(offset)

\* The common block header of the head h, with the offset to the first stream
EncHeader(h, off) ==
    Sealed(h.tag \o h.attrs \o LE16(off) \o <<14, 0>> \o Zeros(8) \o <<h.fla>> \o Zeros(7)
           \o Zeros(8) \o Zeros(4) \o Zeros(4) \o TA(0, 0) \o <<h.strty, 0>>, h.sum)

DateBytes == <<31, 141, 66, 16, 0>>

\* The body of a TAPE block: tape attributes, soft filemark block size b,
\* catalog type, and the media name str behind the 42 bytes
TapeBody(tattr, b, cat, str) ==
    Zeros(4) \o <<tattr, 0, 0, 0>> \o LE16(1) \o LE16(0) \o LE16(b) \o LE16(cat)
    \o TA(Len(str), HEADER_SIZE + TAPE_BODY_SIZE) \o TA(0, 0) \o TA(0, 0) \o TA(0, 0)
    \o LE16(512) \o LE16(0) \o DateBytes \o <<1>> \o str

\* The body of a SSET block with the data set name str
SsetBody(sattr, str) ==
    <<sattr, 0, 0, 0>> \o LE16(0) \o LE16(0) \o LE16(0) \o LE16(1)
    \o TA(Len(str), HEADER_SIZE + SSET_BODY_SIZE) \o TA(0, 0) \o TA(0, 0) \o TA(0, 0)
    \o Zeros(8) \o DateBytes \o <<1, 0, 0, 0, 0>> \o str

\* The body of a VOLB block with the device name str
VolbBody(vattr, str) ==
    <<vattr, 0, 0, 0>> \o TA(Len(str), HEADER_SIZE + VOLB_BODY_SIZE) \o TA(0, 0) \o TA(0, 0)
    \o DateBytes \o str

\* The body of a SFMB block with n bytes of entries
SfmbBody(n) == Zeros(8) \o Zeros(n)

\* A stream header and its checksum
EncStreamHeader(st) ==
    Sealed(st.id \o <<st.fs, 0>> \o <<0, 0>> \o LE64(st.len) \o LE16(0) \o LE16(0), st.sum)

RECURSIVE EncStreams(_, _)
\* The file prefix followed by the streams ss, each with its data and the
\* bytes up to the next 4-byte boundary of the file
EncStreams(prefix, ss) ==
    IF ss = <<>> THEN prefix
    ELSE LET st   == Head(ss)
             base == Len(prefix) + STREAM_HEADER_SIZE
             \* top = k: the length that ends k bytes before 2^64
             hdr  == IF st.top > 0 THEN [st EXCEPT !.len = -(base + st.top)] ELSE st
             n    == IF hdr.len < 0 THEN 0 ELSE hdr.len
             end  == base + n
         IN  EncStreams(prefix \o EncStreamHeader(hdr) \o Zeros(n + ((4 - (end % 4)) % 4)),
                        Tail(ss))

\* The file prefix followed by the block B = [head, gap, streams]; the
\* offset to the first stream leads behind the gap, or is 0 (gap < 0)
EncBlock(prefix, B) ==
    IF B.gap < 0
    THEN EncStreams(prefix \o EncHeader(B.head, 0) \o B.head.body, B.streams)
    ELSE EncStreams(prefix \o EncHeader(B.head, HEADER_SIZE + Len(B.head.body) + B.gap)
                           \o B.head.body \o Zeros(B.gap),
                    B.streams)

RECURSIVE EncFile(_, _)
\* The file prefix followed by the blocks bs
EncFile(prefix, bs) ==
    IF bs = <<>> THEN prefix ELSE EncFile(EncBlock(prefix, Head(bs)), Tail(bs))

\* A tag that is none of the ten kinds, and one that is not UTF-8
TAG_XXXX == <<88, 88, 88, 88>>

TAG_NOT_UTF8 == <<255, 88, 88, 88>>

NoAttrs == <<0, 0, 0, 0>>

AB == <<65, 66>>

\* Bytes that are not UTF-8
HighBytes == <<200, 65>>

\* A head: what the common header and the body of a block are made from
Hd(tag, body) ==
    [tag |-> tag, attrs |-> NoAttrs, strty |-> 1, sum |-> 0, fla |-> 0, body |-> body]

\* Heads of blocks that a well-formed file holds before its last block
GoodHeads ==
    {Hd(TAG_TAPE, TapeBody(1, 1, 1, str)) : str \in {<<>>, AB}}
    \cup {Hd(TAG_SSET, SsetBody(1, <<>>)), Hd(TAG_VOLB, VolbBody(1, AB)), Hd(TAG_XXXX, <<>>)}

\* One head of each kind
KindHeads ==
    {Hd(tag, <<>>) : tag \in {TAG_DIRB, TAG_FILE, TAG_CFIL, TAG_ESPB, TAG_ESET, TAG_EOTM,
                              TAG_XXXX, TAG_NOT_UTF8, NoAttrs}}
    \cup {Hd(TAG_TAPE, TapeBody(1, 1, 1, AB)), Hd(TAG_SSET, SsetBody(1, AB)),
          Hd(TAG_VOLB, VolbBody(1, AB)),
          Hd(TAG_SFMB, SfmbBody(SoftFileMarkBlockSize_bytes(1) - 60))}

\* Heads with one field that the codec refuses or cannot read
BadHeads ==
    {[Hd(TAG_VOLB, VolbBody(1, AB)) EXCEPT !.attrs = <<16, 0, 0, 0>>],
     [Hd(TAG_DIRB, <<>>) EXCEPT !.attrs = <<16, 0, 0, 0>>],
     [Hd(TAG_VOLB, VolbBody(1, AB)) EXCEPT !.strty = 3],
     [Hd(TAG_VOLB, VolbBody(1, AB)) EXCEPT !.strty = 0],
     [Hd(TAG_VOLB, VolbBody(1, AB)) EXCEPT !.sum = 1],
     [Hd(TAG_FILE, <<>>) EXCEPT !.sum = 1],
     [Hd(TAG_TAPE, TapeBody(1, 1, 1, AB)) EXCEPT !.fla = 1],
     Hd(TAG_VOLB, VolbBody(64, AB)),
     Hd(TAG_VOLB, VolbBody(1, HighBytes)),
     Hd(TAG_VOLB, SubSeq(VolbBody(1, AB), 1, 10)),
     Hd(TAG_TAPE, TapeBody(8, 1, 1, AB)),
     Hd(TAG_TAPE, TapeBody(1, 1, 4, AB)),
     Hd(TAG_SSET, SsetBody(64, AB))}

\* A stream: id, file system attributes, length of the data (len < 0: the
\* length 2^64 + len), checksum; top = k > 0: the length is the one that ends
\* k bytes before 2^64
St(id, len) == [id |-> id, fs |-> 0, len |-> len, sum |-> 0, top |-> 0]

StreamKinds == {St(TAG_MQDA, 5), St(TAG_MQDA, 0), St(TAG_SPAD, 0)}

\* Streams that the codec refuses
BadStreams ==
    {[St(TAG_MQDA, 5) EXCEPT !.fs = 16], [St(TAG_MQDA, 5) EXCEPT !.sum = 1],
     St(TAG_NOT_UTF8, 5)}

RECURSIVE StreamSeqs(_)
\* The sequences of n streams
StreamSeqs(n) ==
    IF n = 0 THEN {<<>>}
    ELSE {Append(ss, st) : ss \in StreamSeqs(n - 1), st \in StreamKinds}

StreamLists ==
    UNION {StreamSeqs(n) : n \in 0..MaxStreams} \cup {<<st>> : st \in BadStreams}

\* The bytes between the body and the first stream: the headers of the
\* streams start at a multiple of 4 or 2 bytes off
Gaps == {0, 2}

FirstBlocks ==
    {[head |-> h, gap |-> g, streams |-> ss] : h \in GoodHeads, g \in Gaps, ss \in StreamLists}

LastBlocks ==
    {[head |-> h, gap |-> 0, streams |-> ss] :
        h \in KindHeads \cup BadHeads, ss \in {<<>>, <<St(TAG_SPAD, 0)>>}}
    \cup {[head |-> h, gap |-> -1, streams |-> <<St(TAG_SPAD, 0)>>] :
            h \in {Hd(TAG_VOLB, VolbBody(1, AB)), Hd(TAG_XXXX, <<>>)}}

\* Bytes behind the last block, fewer than a common header
Tails == {0, 30}

\* The input files: one block, or a block of a well-formed file and one more
Inputs ==
    {EncFile(<<>>, <<b>>) \o Zeros(t) : b \in FirstBlocks \cup LastBlocks, t \in Tails}
    \cup {EncFile(<<>>, <<a, b>>) : a \in FirstBlocks, b \in LastBlocks}

\* The index is not used in SpecMTF
IdleIndex ==
    /\ data = <<>>
    /\ cache = <<>>
    /\ ipc = "idle"
    /\ index = <<>>
    /\ ptr = PagePointer(0, 0)
    /\ res = NoCall

\* MTFParser::dblks: DBLKIterator::new over the mapped file
InitMTF ==
    /\ mmap \in Inputs
    /\ position = 0
    /\ sets = NoSets
    /\ out = NoOut
    /\ call = [position |-> 0, sets |-> NoSets]
    /\ starts = <<>>
    /\ overflow_checks \in BOOLEAN
    /\ IdleIndex
    /\ IdleCache

\* The state after a call of next() with the outcome r
Called(r) ==
    /\ position' = r.position
    /\ sets' = r.sets
    /\ out' = [k |-> r.k, item |-> r.item, cursor |-> r.cursor,
               e |-> r.e, how |-> r.how, at |-> r.at]
    /\ call' = [position |-> position, sets |-> sets]
    /\ starts' = IF r.k = "Some" THEN Append(starts, position) ELSE starts

\* The consumer takes at most MaxYields blocks
MaxYields == 4

\* The consumer calls next(); a panic ends the process
DBLKIteratorNext ==
    /\ out.k # "Panic"
    /\ Len(starts) < MaxYields
    /\ Called(DBLKIterator_next(mmap, [position |-> position, sets |-> sets]))
    /\ UNCHANGED <<mmap, overflow_checks>>
    /\ UNCHANGED ivars
    /\ UNCHANGED cvars

NextMTF == DBLKIteratorNext

SpecMTF == InitMTF /\ [][NextMTF]_vars

---------------------------------------------------------------------------
(* The input files of SpecSFMB: TAPE blocks followed by a SFMB block *)

\* The soft filemark block sizes that the TAPE blocks carry
BlockSizes == {0, 1, 2, 4}

\* A TAPE block with the soft filemark block size b and the stream SPAD
TapeBlock(b) ==
    [head |-> Hd(TAG_TAPE, TapeBody(1, b, 1, <<>>)), gap |-> 0, streams |-> <<St(TAG_SPAD, 0)>>]

VolbBlock ==
    [head |-> Hd(TAG_VOLB, VolbBody(1, AB)), gap |-> 0, streams |-> <<St(TAG_SPAD, 0)>>]

\* A SFMB block with n bytes of entries, no two neighbours alike, and the
\* number of entries as its counters
SfmbBlock(n) ==
    [head |-> Hd(TAG_SFMB, LE16(n \div 4) \o <<0, 0>> \o LE16(n \div 4) \o <<0, 0>>
                           \o [k \in 1..n |-> k % 256]),
     gap |-> 0, streams |-> <<St(TAG_SPAD, 0)>>]

\* The blocks before the SFMB block: one or two TAPE blocks, or a TAPE and
\* a VOLB block
TapePrefixes ==
    {<<TapeBlock(b)>> : b \in BlockSizes}
    \cup {<<TapeBlock(a), TapeBlock(b)>> : a \in BlockSizes, b \in BlockSizes}
    \cup {<<TapeBlock(b), VolbBlock>> : b \in BlockSizes}

\* The bytes of entries a SFMB block holds: none, or what a block size asks for
EntryBytes == {0} \cup {SoftFileMarkBlockSize_bytes(b) - 60 : b \in BlockSizes \ {0}}

SfmbInputs == {EncFile(<<>>, Append(pre, SfmbBlock(n))) : pre \in TapePrefixes, n \in EntryBytes}

\* MTFParser::dblks over a file that ends with a SFMB block
InitSFMB ==
    /\ mmap \in SfmbInputs
    /\ position = 0
    /\ sets = NoSets
    /\ out = NoOut
    /\ call = [position |-> 0, sets |-> NoSets]
    /\ starts = <<>>
    /\ overflow_checks \in BOOLEAN
    /\ IdleIndex
    /\ IdleCache

NextSFMB == DBLKIteratorNext

SpecSFMB == InitSFMB /\ [][NextSFMB]_vars

---------------------------------------------------------------------------
(* The input files of SpecOrder: up to MaxBlocks blocks, among them blocks *)
(* whose stream has a length close to 2^64                                *)

MaxBlocks == 3

StTop(id, k) == [St(id, 0) EXCEPT !.top = k]

\* The stream lists of the blocks: the stream SPAD; no stream; a stream
\* whose end is 1, 2 or 4 bytes before 2^64; a stream whose end wraps around
\* to the start of its header
OrderStreams ==
    {<<St(TAG_SPAD, 0)>>, <<>>, <<StTop(TAG_SPAD, 1)>>, <<StTop(TAG_SPAD, 4)>>,
     <<StTop(TAG_MQDA, 2)>>, <<St(TAG_SPAD, -STREAM_HEADER_SIZE)>>}

OrderBlocks ==
    {[head |-> Hd(TAG_XXXX, <<>>), gap |-> 0, streams |-> ss] : ss \in OrderStreams}
    \cup {[head |-> Hd(TAG_XXXX, <<>>), gap |-> 2, streams |-> <<St(TAG_SPAD, -1)>>],
          [head |-> Hd(TAG_VOLB, VolbBody(1, AB)), gap |-> 2,
           streams |-> <<St(TAG_MQDA, 5), St(TAG_SPAD, 0)>>]}

OrderInputs == {EncFile(<<>>, bs) : bs \in UNION {[1..n -> OrderBlocks] : n \in 1..MaxBlocks}}

\* MTFParser::dblks over such a file, in either build
InitOrder ==
    /\ mmap \in OrderInputs
    /\ position = 0
    /\ sets = NoSets
    /\ out = NoOut
    /\ call = [position |-> 0, sets |-> NoSets]
    /\ starts = <<>>
    /\ overflow_checks \in BOOLEAN
    /\ IdleIndex
    /\ IdleCache

NextOrder == DBLKIteratorNext

SpecOrder == InitOrder /\ [][NextOrder]_vars

---------------------------------------------------------------------------
(* SpecCache: processes that run MTFBackupIndex::build over one payload at *)
(* the same time, in one working directory. Each step of build that       *)
(* touches the cache file is an action of its own.                        *)

\* The processes
Builders == {1, 2}

\* bincode::serialize_into writes the index to the unbuffered file piece by
\* piece; the pieces are grouped into Parts writes
Parts == 2

\* The payloads: 1030 pages of one file, and the same followed by a page of
\* a second file
CachePayloads ==
    {Flatten(<<<<1, 5, LongLen>>>>), Flatten(<<<<1, 7, LongLen>>>>),
     Flatten(<<<<1, 5, LongLen>>, <<2, 7, 1>>>>)}

\* A file just created or truncated: none of its parts is there
EmptyFile(idx) == [parts |-> [k \in 1..Parts |-> "absent"], idx |-> idx]

\* The file f after the part k of idx is written at its offset: the parts
\* before it that were cut off by a truncation read as zeros
WritePart(f, k, idx) ==
    [parts |-> [j \in 1..Parts |->
                    IF j = k THEN "data"
                    ELSE IF j < k /\ f.parts[j] = "absent" THEN "zero"
                    ELSE f.parts[j]],
     idx |-> idx]

\* The number of parts up to the end of the file f
FileParts(f) ==
    LET there == {k \in 1..Parts : f.parts[k] # "absent"}
    IN  IF there = {} THEN 0 ELSE CHOOSE k \in there : \A j \in there : j <= k

\* What zeros deserialise to: an index with no entries
ZeroIndex == [idx |-> <<>>, outer_level_entries |-> 0, divisor |-> 0, max_page_ids |-> <<>>]

\* bincode::deserialize_from(file): an error at the end of a file that is
\* shorter than the index; the index that was written when every part is
\* there; the index that zeros stand for when a part reads as zeros
deserialize_from(f) ==
    IF FileParts(f) < Parts THEN Err("Io")
    ELSE IF \E k \in 1..Parts : f.parts[k] = "zero" THEN Ok(ZeroIndex)
    ELSE Ok(f.idx)

\* The files with the content f under name
WithFile(name, f) == [n \in DOMAIN disk \cup {name} |-> IF n = name THEN f ELSE disk[n]]

\* The process b moves on to pc
Goto(b, pc) == builders' = [builders EXCEPT ![b].pc = pc]

InitCache ==
    /\ data \in CachePayloads
    /\ builders = [b \in Builders |-> [pc |-> "exists", off |-> 0, idx |-> <<>>]]
    /\ disk = <<>>
    /\ cache = <<>>
    /\ ipc = "idle"
    /\ index = <<>>
    /\ ptr = PagePointer(0, 0)
    /\ res = NoCall
    /\ IdleMTF

\* try_load_cache: path.exists()
CacheExists(b) ==
    /\ builders[b].pc = "exists"
    /\ LET cn == cache_name(data)
       IN  Goto(b, IF cn.panic THEN "panic"
                   ELSE IF cn.name \in DOMAIN disk THEN "open" ELSE "scan")
    /\ UNCHANGED disk

\* try_load_cache: std::fs::File::open(path).unwrap()
CacheOpen(b) ==
    /\ builders[b].pc = "open"
    /\ Goto(b, IF cache_name(data).name \in DOMAIN disk THEN "read" ELSE "panic")
    /\ UNCHANGED disk

\* try_load_cache: bincode::deserialize_from(file).unwrap(); build returns
\* the index that was read
CacheDeserialize(b) ==
    /\ builders[b].pc = "read"
    /\ LET r == deserialize_from(disk[cache_name(data).name])
       IN  builders' = [builders EXCEPT ![b].pc = IF IsOk(r) THEN "done" ELSE "panic",
                                        ![b].idx = IF IsOk(r) THEN r.v ELSE <<>>]
    /\ UNCHANGED disk

\* build: no cache file was found, the payload is scanned
ScanPayload(b) ==
    /\ builders[b].pc = "scan"
    /\ LET s == Scan(data)
       IN  builders' = [builders EXCEPT ![b].pc = IF s.panic THEN "panic" ELSE "create",
                                        ![b].idx = IF s.panic THEN <<>> ELSE s.index]
    /\ UNCHANGED disk

\* write_cache: std::fs::File::create(path).unwrap() creates the file or
\* truncates it
CacheCreate(b) ==
    /\ builders[b].pc = "create"
    /\ disk' = WithFile(cache_name(data).name, EmptyFile(builders[b].idx))
    /\ builders' = [builders EXCEPT ![b].pc = "write", ![b].off = 0]

\* write_cache: bincode::serialize_into(file, self) writes the next part at
\* the offset of this process; build returns after the last part
CacheWrite(b) ==
    /\ builders[b].pc = "write"
    /\ LET name == cache_name(data).name
           k    == builders[b].off + 1
       IN  /\ disk' = WithFile(name, WritePart(disk[name], k, builders[b].idx))
           /\ builders' = [builders EXCEPT ![b].pc = IF k = Parts THEN "done" ELSE "write",
                                            ![b].off = k]

NextCache ==
    \E b \in Builders :
        /\ \/ CacheExists(b)
           \/ CacheOpen(b)
           \/ CacheDeserialize(b)
           \/ ScanPayload(b)
           \/ CacheCreate(b)
           \/ CacheWrite(b)
        /\ UNCHANGED ivars
        /\ UNCHANGED mvars

SpecCache == InitCache /\ [][NextCache]_vars

---------------------------------------------------------------------------
(* The page index: properties of SpecIndex *)

\* The payload pages at which a run starts: the first page, and every page
\* that does not continue the file and the page ids of the page before it
RunStarts(d) ==
    {i \in 1..Len(d) :
        i = 1 \/ d[i - 1].file_id # d[i].file_id \/ d[i - 1].page_id + 1 # d[i].page_id}

\* The last page of the maximal run that starts at page i
RunEnd(d, i) ==
    LET later == {j \in RunStarts(d) : j > i}
    IN  IF later = {} THEN Len(d)
        ELSE (CHOOSE j \in later : \A k \in later : j <= k) - 1

\* The maximal runs of the payload, as the entries they stand for
RunEntries(d) ==
    {[file_id |-> d[i].file_id,
      entry |-> IndexEntry(d[i].page_id, d[RunEnd(d, i)].page_id, i - 1)] : i \in RunStarts(d)}

\* The entries an index holds, with the file of each
IndexEntries(ix) ==
    UNION {UNION {{[file_id |-> f, entry |-> ix.idx[f][b][k]] : k \in 1..Len(ix.idx[f][b])} :
                    b \in 1..Len(ix.idx[f])} : f \in 1..Len(ix.idx)}

\* The number of entries an index holds
RECURSIVE CountEntries(_, _, _)
CountEntries(ix, f, b) ==
    IF f > Len(ix.idx) THEN 0
    ELSE IF b > Len(ix.idx[f]) THEN CountEntries(ix, f + 1, 1)
    ELSE Len(ix.idx[f][b]) + CountEntries(ix, f, b + 1)

FileIds(d) == {d[i].file_id : i \in 1..Len(d)}

CeilDiv(a, b) == (a + b - 1) \div b

\* C1: round trip. Whenever lookup is called on a built index with the
\* pointer (file_id # 0) of some payload page, it returns Some(idx) and the
\* payload page idx carries that pointer.
C1_RoundTrip ==
    (res.op = "lookup" /\ ptr.file_id # 0 /\ \E i \in 1..Len(data) : data[i] = ptr)
        => /\ ~res.panic
           /\ IsSome(res.ret)
           /\ Unwrap(res.ret) + 1 \in 1..Len(data)
           /\ data[Unwrap(res.ret) + 1] = ptr

\* C2: not found. Whenever lookup is called on a built index with a pointer
\* of a known file that no entry of the index covers, it does not fail and
\* returns None.
C2_NotFoundIsNone ==
    (/\ res.op = "lookup"
     /\ ptr.file_id \in DOMAIN index.max_page_ids
     /\ \A e \in IndexEntries(index) :
            e.file_id = ptr.file_id
                => ~(e.entry.start <= ptr.page_id /\ ptr.page_id <= e.entry.stop))
        => (~res.panic /\ res.ret = None)

\* C3: one entry per maximal run. After build has run over a payload whose
\* pages all have a file_id # 0, an index exists and holds exactly one entry
\* (start, stop, base) for each maximal run of the payload.
C3_OneEntryPerRun ==
    (ipc # "init" /\ res = NoCall /\ 0 \notin FileIds(data))
        => /\ ipc = "built"
           /\ IndexEntries(index) = RunEntries(data)
           /\ CountEntries(index, 1, 1) = Cardinality(RunStarts(data))

\* C4: fallback to lower buckets. Whenever lookup is called for a page p of
\* file 1 with p / DIVISOR >= 1 and the payload has a run of file 1 that
\* starts in bucket 0 and covers p, the call returns base + (p - start).
C4_BucketFallback ==
    (/\ res.op = "lookup"
     /\ ptr.file_id = 1
     /\ ptr.page_id \div DIVISOR >= 1)
        => \A r \in RunEntries(data) :
              (/\ r.file_id = 1
               /\ r.entry.start \div DIVISOR = 0
               /\ r.entry.start <= ptr.page_id
               /\ ptr.page_id <= r.entry.stop)
                  => (/\ ~res.panic
                      /\ res.ret = Some(r.entry.base + (ptr.page_id - r.entry.start)))

\* C5: after build, the index has at least file_id outer vectors for every
\* indexed file_id, and every outer vector has ceil(num_pages / DIVISOR) slots.
C5_OuterSlots ==
    (ipc = "built" /\ res = NoCall)
        => /\ \A f \in FileIds(data) \ {0} : Len(index.idx) >= f
           /\ \A f \in 1..Len(index.idx) :
                  Len(index.idx[f]) = CeilDiv(DataLen(data) \div PAGE_SIZE, DIVISOR)

---------------------------------------------------------------------------
(* The reader: properties of SpecMTF *)

\* The streams of the item that the latest call yielded
Yielded == Unwrap(out.item).streams

\* The position of the header of the k-th yielded stream
HeaderStart(k) == Yielded[k].stream.base - STREAM_HEADER_SIZE

\* The position of the cursor when the codec is done with the k-th yielded
\* stream: the header of the next yielded stream, and behind the stream SPAD,
\* the last one, the position the call ends at
NextHeaderStart(k) ==
    IF k < Len(Yielded) THEN HeaderStart(k + 1) ELSE out.cursor

\* The yielded streams behind which the cursor is known
Followed == {k \in 1..Len(Yielded) : k < Len(Yielded) \/ Yielded[k].stream.header.id = TAG_SPAD}

CalledBlock == DBLK_parse(mmap, call.position, call.sets)

\* The stream-list position of that block
StreamListPosition == call.position + CalledBlock.v.dblk.header.offset_to_first_event

\* The 22 bytes at the stream-list position start with the tag of a DBLK kind
SentinelAtStreamList ==
    /\ out.k # "Start"
    /\ IsOk(CalledBlock)
    /\ CanRead(mmap, StreamListPosition, STREAM_HEADER_SIZE)
    /\ BytesAt(mmap, StreamListPosition, 4) \in DBLK_TAGS

\* C7: when the 22 bytes at the stream-list position of the block that a
\* call decodes start with the tag of a DBLK kind, the call does not fail,
\* ends with the cursor at the first of these bytes, yields the block with
\* zero streams, and the next call starts there; whatever the other 18 bytes are.
C7_Sentinel ==
    SentinelAtStreamList
        => /\ out.k # "Panic"
           /\ out.cursor = StreamListPosition
           /\ out.k = "Some" => (Yielded = <<>> /\ position = StreamListPosition)

\* C7, witness: a block is yielded with zero streams and the cursor at 22
\* bytes that start with a DBLK tag and whose last word is not their checksum.
C7_Witness ==
    /\ SentinelAtStreamList
    /\ out.k = "Some"
    /\ Yielded = <<>>
    /\ out.cursor > call.position
    /\ LET h == BytesAt(mmap, out.cursor, STREAM_HEADER_SIZE)
       IN  U16(h, 20) # Checksum(h)

\* C8: when a call starts at the end of the input, behind the last block and
\* its streams with fewer than 52 bytes left, it leaves the cursor where it
\* is and returns None.
C8_NoneAtEnd ==
    (/\ out.k # "Start"
     /\ call.position > 0
     /\ call.position <= Len(mmap)
     /\ Len(mmap) - call.position < HEADER_SIZE)
        => (out.k = "None" /\ out.cursor = call.position)

\* C9: a call never turns an error value of the codecs (read past the end,
\* bad flags, bad tag, missing TAPE, bad encoding) into a panic: the
\* consumer receives it.
C9_ErrorsAreValues == ~(out.k = "Panic" /\ out.how = "Err")

\* The header at the start of the latest call is valid
HeaderValid ==
    /\ CanRead(mmap, call.position, HEADER_SIZE)
    /\ LET h == BytesAt(mmap, call.position, HEADER_SIZE)
       IN  /\ IsOk(CommonBlockAttrs_parse(SubSeq(h, 5, 8), DBLKType_parse(SubSeq(h, 1, 4))))
           /\ IsOk(StringType_parse(h[49]))
           /\ U16(h, 50) = Checksum(h)

\* C10: a call that starts at a valid header with the tag DIRB, FILE, CFIL,
\* ESPB, ESET or EOTM decodes a header-only block of that kind: DBLK::parse
\* does not fail.
C10_HeaderOnlyKinds ==
    (/\ out.k # "Start"
     /\ HeaderValid
     /\ BytesAt(mmap, call.position, 4)
            \in {TAG_DIRB, TAG_FILE, TAG_CFIL, TAG_ESPB, TAG_ESET, TAG_EOTM})
        => ~(out.k = "Panic" /\ out.at = "DBLK::parse")

\* The latest call started at a valid header with the tag SFMB
CalledSFMB ==
    /\ out.k # "Start"
    /\ HeaderValid
    /\ BytesAt(mmap, call.position, 4) = TAG_SFMB

\* C11: decoding a SFMB block while the context holds no TAPE block never
\* succeeds and produces no SFMB body: DBLK::parse returns an error, which is
\* the Dependency error whenever the two counters of the block can be read,
\* and the context slot of the latest SFMB stays as it was.
C11_NeedsTape ==
    (CalledSFMB /\ ~IsSome(call.sets.tape))
        => /\ ~IsOk(CalledBlock)
           /\ CanRead(mmap, call.position + HEADER_SIZE, 8) => CalledBlock = Err("Dependency")
           /\ out.k = "Panic" /\ out.at = "DBLK::parse"
           /\ sets.soft_mark = call.sets.soft_mark

\* C11, witness: a SFMB block with its counters and 452 bytes of entries, as
\* a block size of 1 asks for, is decoded with no TAPE block in the context
\* and fails with the Dependency error.
C11_Witness ==
    /\ CalledSFMB
    /\ ~IsSome(call.sets.tape)
    /\ CanRead(mmap, call.position + HEADER_SIZE, 8 + SoftFileMarkBlockSize_bytes(1) - 60)
    /\ out.e = "Dependency"
    /\ ~IsSome(sets.soft_mark)


\* The starts of the TAPE blocks before the block of the latest call
TapeStarts == {q \in 0..(call.position - 1) : BytesAt(mmap, q, 4) = TAG_TAPE}

\* The soft filemark block size of the last of them, the u16 at offset 12
\* of its body
LatestBlockSize ==
    LET q == CHOOSE q \in TapeStarts : \A r \in TapeStarts : r <= q
    IN  U16(BytesAt(mmap, q + HEADER_SIZE, 14), 12)

\* The bytes of entries that the block size b asks for
EntryLen(b) == 512 * b - 60

\* The two counters of the SFMB block of the latest call, and the bytes of
\* entries (none when EntryLen is negative), are in the input
SfmbInInput ==
    /\ CanRead(mmap, call.position + HEADER_SIZE, 8)
    /\ EntryLen(LatestBlockSize) >= 0
          => CanRead(mmap, call.position + HEADER_SIZE + 8, EntryLen(LatestBlockSize))

\* C12: after blocks that contain at least one TAPE block, a SFMB block is
\* decoded and yielded with exactly (512 * b - 60) / 4 entries, the k-th of
\* them the 4 bytes at 60 + 4 * (k - 1) of the block, where b is the soft
\* filemark block size of the latest TAPE block; for every b.
C12_EntriesTable ==
    (CalledSFMB /\ TapeStarts # {} /\ SfmbInInput)
        => /\ IsOk(CalledBlock)
           /\ out.k = "Some"
           /\ LET body == Unwrap(out.item).dblk.body
              IN  /\ body.ty = "SFMB"
                  /\ Len(body.entries) = EntryLen(LatestBlockSize) \div 4
                  /\ \A k \in 1..Len(body.entries) :
                        body.entries[k]
                            = BytesAt(mmap, call.position + 60 + 4 * (k - 1), 4)


RECURSIVE XorOfWords(_, _)
\* The XOR of the first n little-endian 16-bit words of b
XorOfWords(b, n) ==
    IF n = 0 THEN 0 ELSE Xor(XorOfWords(b, n - 1), U16(b, 2 * (n - 1)))

\* The first 25 words of the 52-byte header h XOR to the word at offset 50
DBLKRule(h) == XorOfWords(h, 25) = U16(h, 50)

\* The first 10 words of the 22-byte header h XOR to the 11th word
StreamRule(h) == XorOfWords(h, 10) = U16(h, 20)

\* The result of Stream::parse at the stream-list position of the block of
\* the latest call
FirstStream == Stream_parse(mmap, StreamListPosition)

\* C13: every DBLK that DBLK::parse returns has a 52-byte header whose first
\* 25 words XOR to the word at offset 50, and every stream that Stream::parse
\* returns (the first one of a block, and each one that is yielded) has a
\* 22-byte header whose first 10 words XOR to the 11th word: the stored word
\* is not folded in, and no header with a mismatch is returned.
C13_ChecksumRule ==
    /\ (out.k # "Start" /\ IsOk(CalledBlock))
          => /\ DBLKRule(BytesAt(mmap, call.position, HEADER_SIZE))
             /\ (IsOk(FirstStream) /\ IsSome(FirstStream.v.stream))
                   => StreamRule(BytesAt(mmap, StreamListPosition, STREAM_HEADER_SIZE))
    /\ out.k = "Some"
          => \A k \in 1..Len(Yielded) :
                StreamRule(BytesAt(mmap, HeaderStart(k), STREAM_HEADER_SIZE))

\* C13, witness: a block is yielded with two streams; the stored words of
\* the block header and of the stream headers are not 0, so that folding
\* them in would have changed the computed value.
C13_Witness ==
    /\ out.k = "Some"
    /\ Len(Yielded) = 2
    /\ U16(BytesAt(mmap, call.position, HEADER_SIZE), 50) # 0
    /\ \A k \in 1..2 : U16(BytesAt(mmap, HeaderStart(k), STREAM_HEADER_SIZE), 20) # 0
    /\ Unwrap(out.item).dblk.header.header_checksum
          = XorOfWords(BytesAt(mmap, call.position, HEADER_SIZE), 25)


\* The 22 bytes at the stream-list position of the block of the latest call
\* are a stream header with valid flags and checksum, and their first four
\* bytes are not the tag of a DBLK kind
UnknownStreamAtStreamList ==
    /\ out.k # "Start"
    /\ IsOk(CalledBlock)
    /\ CanRead(mmap, StreamListPosition, STREAM_HEADER_SIZE)
    /\ LET h == BytesAt(mmap, StreamListPosition, STREAM_HEADER_SIZE)
       IN  /\ SubSeq(h, 1, 4) \notin DBLK_TAGS
           /\ FromBits(SubSeq(h, 5, 6), MASK_FileSystemAttributes)
           /\ FromBits(SubSeq(h, 7, 8), MASK_MediaFormatAttributes)
           /\ StreamRule(h)

\* C14: unknown tags are never errors. A call that starts at a valid header
\* whose tag, whatever its four bytes, is none of the ten DBLK tags decodes
\* an UNKNOWN body that carries the four bytes as four characters; and a
\* valid stream header whose id, whatever its four bytes, is not a DBLK tag
\* is returned as a stream with these four characters as its id.
C14_UnknownVerbatim ==
    /\ (/\ out.k # "Start"
        /\ HeaderValid
        /\ BytesAt(mmap, call.position, 4) \notin DBLK_TAGS)
          => /\ IsOk(CalledBlock)
             /\ CalledBlock.v.dblk.body.ty = "UNKNOWN"
             /\ CalledBlock.v.dblk.body.id = BytesAt(mmap, call.position, 4)
    /\ UnknownStreamAtStreamList
          => /\ IsOk(FirstStream)
             /\ IsSome(FirstStream.v.stream)
             /\ Unwrap(FirstStream.v.stream).header.id = BytesAt(mmap, StreamListPosition, 4)


---------------------------------------------------------------------------
(* The cache file: properties of SpecCache *)

\* C15: two processes run build over the same payload at the same time;
\* under every interleaving of their steps (existence check, create,
\* serialise, open, deserialise) no process fails, none reads a cache file
\* that is not fully written, and each ends with the index of the payload.
C15_ConcurrentBuilds ==
    \A b \in DOMAIN builders :
        /\ builders[b].pc # "panic"
        /\ builders[b].pc = "done" => builders[b].idx = Scan(data).index


---------------------------------------------------------------------------
(* The order of the blocks: properties of SpecOrder *)

\* C16: the blocks are yielded in the order of their positions: the start
\* position of each yielded block is greater than that of every block
\* yielded before it, and the saved position is never less than it was
\* before the latest call.
C16_Ordered ==
    /\ \A i \in 1..Len(starts) : \A j \in 1..Len(starts) : i < j => starts[i] < starts[j]
    /\ position >= call.position


---------------------------------------------------------------------------
(* Strings, the stream list, the context: properties of SpecMTF *)

\* The TapeAddress of the device name of the VOLB block of the latest call
DeviceName ==
    TapeAddress_parse(BytesAt(mmap, call.position + HEADER_SIZE, 8), 4, call.position)

\* The latest call started at a valid header with the tag VOLB and the
\* string type ANSI, and the device name of the block has size > 0 and lies
\* inside the input
AnsiDeviceName ==
    /\ out.k # "Start"
    /\ HeaderValid
    /\ BytesAt(mmap, call.position, 4) = TAG_VOLB
    /\ BytesAt(mmap, call.position, HEADER_SIZE)[49] = 1
    /\ CanRead(mmap, call.position + HEADER_SIZE, 8)
    /\ DeviceName.size > 0
    /\ CanRead(mmap, DeviceName.base + DeviceName.offset, DeviceName.size)

\* C17: ANSI strings are 8-bit-clean. When the string type of the block is
\* ANSI, resolving a TapeAddress with size > 0 whose bytes lie inside the
\* input succeeds for every byte sequence, bytes >= 0x80 included, and
\* yields a string of exactly size characters, one per byte; DBLK::parse
\* does not fail with an encoding error.
C17_AnsiEightBitClean ==
    AnsiDeviceName
        => /\ read_str(DeviceName, "ANSI_STR", mmap)
                = Ok(Some(BytesAt(mmap, DeviceName.base + DeviceName.offset, DeviceName.size)))
           /\ CalledBlock # Err("Encoding")


\* The stream list of the block of the latest call, as Stream::parse_all
\* decodes it
CalledStreams == Stream_parse_all(mmap, StreamListPosition)

\* The first stream of that list is decoded, with a length below POS_INF
FirstStreamDecoded ==
    /\ out.k # "Start"
    /\ IsOk(CalledBlock)
    /\ IsOk(FirstStream)
    /\ IsSome(FirstStream.v.stream)
    /\ Unwrap(FirstStream.v.stream).header.length \in 0..(POS_INF - 1)

\* The next position computed for that stream: payload base + length + the
\* bytes up to the next multiple of 4
FirstNextPosition ==
    LET end == Unwrap(FirstStream.v.stream).base + Unwrap(FirstStream.v.stream).header.length
    IN  end + ((4 - (end % 4)) % 4)

\* The stream list was cut at the tag of the next block, which empties it
CutAtSentinel ==
    /\ Unwrap(FirstStream.v.stream).header.id # TAG_SPAD
    /\ CanRead(mmap, CalledStreams.v.pos, STREAM_HEADER_SIZE)
    /\ BytesAt(mmap, CalledStreams.v.pos, 4) \in DBLK_TAGS

\* C18: a stream whose computed next position is greater than the position
\* before its 22-byte header is recorded in the stream list and the cursor
\* is advanced to that next position, also when its length is 0: the list
\* does not stop there for lack of progress.
C18_NoProgressRule ==
    (/\ FirstStreamDecoded
     /\ FirstNextPosition > StreamListPosition
     /\ IsOk(CalledStreams)
     /\ ~CutAtSentinel)
        => /\ Len(CalledStreams.v.streams) >= 1
           /\ CalledStreams.v.streams[1] = Unwrap(FirstStream.v.stream)
           /\ Unwrap(FirstStream.v.stream).header.id = TAG_SPAD
                 => (CalledStreams.v.pos = FirstNextPosition /\ out.cursor = FirstNextPosition)


\* The context slot that holds the latest block of the kind ty; "" for a
\* kind that has no slot
SlotOf(ty) ==
    CASE ty = "TAPE" -> "tape"
      [] ty = "SSET" -> "set"
      [] ty = "VOLB" -> "vol"
      [] ty = "DIRB" -> "dir"
      [] ty = "FILE" -> "file"
      [] ty = "SFMB" -> "soft_mark"
      [] OTHER -> ""

\* C19: the context changes only on a yield. A call that ends with None
\* (the cursor is at the saved position) leaves every slot of the context as
\* it was, and a call that yields a block changes no slot but the one of the
\* kind of that block.
C19_ContextOnYield ==
    /\ out.k = "None" => sets = call.sets
    /\ out.k = "Some"
          => \A slot \in DOMAIN sets :
                slot # SlotOf(Unwrap(out.item).dblk.body.ty) => sets[slot] = call.sets[slot]


---------------------------------------------------------------------------
(* The partition of the payload: a property of SpecIndex *)

\* The entries of the file f in the index ix
EntriesOf(ix, f) == {x.entry : x \in {y \in IndexEntries(ix) : y.file_id = f}}

\* The payload offsets that the entry e stands for
Offsets(e) == e.base..(e.base + (e.stop - e.start))

\* The payload offsets of the pages of the file f
PagesOf(d, f) == {i - 1 : i \in {j \in 1..Len(d) : d[j].file_id = f}}

\* C20: in every index that build returns, the page_id ranges [start, stop]
\* of the entries of one bucket of one file are pairwise disjoint, and the
\* payload offset ranges [base, base + (stop - start)] of the entries of one
\* file are pairwise disjoint and cover exactly the offsets of the payload
\* pages of that file.
C20_Partition ==
    (ipc = "built" /\ res = NoCall)
        => /\ \A f \in 1..Len(index.idx) : \A b \in 1..Len(index.idx[f]) :
                \A i \in 1..Len(index.idx[f][b]) : \A j \in 1..Len(index.idx[f][b]) :
                    i < j => \/ index.idx[f][b][i].stop < index.idx[f][b][j].start
                             \/ index.idx[f][b][j].stop < index.idx[f][b][i].start
           /\ \A f \in (1..Len(index.idx)) \cup (FileIds(data) \ {0}) :
                /\ \A e1 \in EntriesOf(index, f) : \A e2 \in EntriesOf(index, f) :
                      e1 # e2 => Offsets(e1) \cap Offsets(e2) = {}
                /\ UNION {Offsets(e) : e \in EntriesOf(index, f)} = PagesOf(data, f)

---------------------------------------------------------------------------
(* The buckets addressed by build: a property of SpecIndex *)

\* The payload is long enough for cache_name and its first page is initialised:
\* build reaches the scan, and the scan passes its first unwrap
Scannable(d) == ~cache_name(d).panic /\ IsSome(parse_ptr(d, 0))

\* C21: build never addresses a bucket that does not exist. For every payload
\* whose first page has a non-zero file_id, build ends with an index (no run
\* is written to a slot beyond the outer vector of its file), and every entry
\* of the index has start / DIVISOR below the number of slots of its file,
\* also when the page ids are larger than the number of pages of the payload.
C21_BucketExists ==
    (ipc # "init" /\ res = NoCall /\ Scannable(data))
        => /\ ipc = "built"
           /\ \A e \in IndexEntries(index) :
                  e.entry.start \div DIVISOR < Len(index.idx[e.file_id])

---------------------------------------------------------------------------
(* The streams before a sentinel: a property of SpecMTF *)

RECURSIVE StreamsUpToSentinel(_, _, _)
\* The stream list at pos read header by header, each stream followed by its
\* data and the bytes up to the next multiple of 4: Some([streams, pos]) with
\* the streams before the first header that starts with a DBLK tag and the
\* position of that header; None when a header cannot be decoded or a
\* stream SPAD ends the list first
StreamsUpToSentinel(m, pos, acc) ==
    IF ~IsOk(Stream_parse(m, pos)) THEN None
    ELSE IF ~IsSome(Stream_parse(m, pos).v.stream) THEN Some([streams |-> acc, pos |-> pos])
    ELSE IF \/ Unwrap(Stream_parse(m, pos).v.stream).header.id = TAG_SPAD
            \/ Unwrap(Stream_parse(m, pos).v.stream).header.length \notin 0..(POS_INF - 1)
         THEN None
    ELSE StreamsUpToSentinel(
            m,
            pos + STREAM_HEADER_SIZE + Unwrap(Stream_parse(m, pos).v.stream).header.length
                + ((4 - ((pos + STREAM_HEADER_SIZE
                            + Unwrap(Stream_parse(m, pos).v.stream).header.length) % 4)) % 4),
            Append(acc, Unwrap(Stream_parse(m, pos).v.stream)))

\* The streams (none of them SPAD) between the stream-list position of the
\* block of the latest call and a sentinel header, when there is at least one
BeforeSentinel == StreamsUpToSentinel(mmap, StreamListPosition, <<>>)

KeptCase ==
    /\ out.k # "Start"
    /\ IsOk(CalledBlock)
    /\ IsSome(BeforeSentinel)
    /\ Len(Unwrap(BeforeSentinel).streams) >= 1

\* C22: when the stream list of a block holds k >= 1 streams, none of them
\* SPAD, followed by a 22-byte header whose id is a DBLK tag, the stream
\* codec returns those k streams in their order of appearance and leaves the
\* cursor at the sentinel header.
C22_KeptBeforeSentinel ==
    KeptCase
        => /\ IsOk(CalledStreams)
           /\ CalledStreams.v.streams = Unwrap(BeforeSentinel).streams
           /\ CalledStreams.v.pos = Unwrap(BeforeSentinel).pos
           /\ out.cursor = Unwrap(BeforeSentinel).pos

---------------------------------------------------------------------------
(* SpecStale: the program is run over one payload after another in one     *)
(* working directory; the cache files of the earlier runs stay.            *)

\* The payloads, of more than DIVISOR pages each: a run of file 1; two with
\* the same first CACHE_PAGES pages and the same length as it and other pages
\* behind them; one with other first pages; one with the same first pages
\* and one page more
StalePayloads ==
    {Flatten(<<<<1, 5, LongLen>>>>),
     Flatten(<<<<1, 5, CACHE_PAGES + 2>>, <<1, 20, LongLen - (CACHE_PAGES + 2)>>>>),
     Flatten(<<<<1, 5, CACHE_PAGES>>, <<2, 7, LongLen - CACHE_PAGES>>>>),
     Flatten(<<<<1, 7, LongLen>>>>),
     Flatten(<<<<1, 5, LongLen>>, <<2, 7, 1>>>>)}

InitStale ==
    /\ data \in StalePayloads
    /\ cache = <<>>
    /\ ipc = "init"
    /\ index = <<>>
    /\ ptr = PagePointer(0, 0)
    /\ res = NoCall
    /\ IdleMTF
    /\ IdleCache

\* The state after build has ended with b = [panic, index, cache]
Built(b) ==
    /\ ipc' = IF b.panic THEN "panic" ELSE "built"
    /\ index' = b.index
    /\ cache' = b.cache

\* A run of the program: MTFPageProvider::from_stream calls build over the
\* payload d, with the cache files that the runs before it left
BuildOver ==
    /\ \E d \in StalePayloads :
        /\ data' = d
        /\ Built(build(d, cache))
    /\ res' = NoCall
    /\ ptr' = PagePointer(0, 0)
    /\ UNCHANGED mvars
    /\ UNCHANGED cvars

NextStale == BuildOver \/ Lookup \/ Get \/ Return

SpecStale == InitStale /\ [][NextStale]_vars

\* C23: a cached index is used only for the payload it was built from. After
\* any sequence of build calls over payloads in one working directory, the
\* index that build returns for a payload is the index that scanning this
\* payload produces, also when an earlier payload had the same first 10
\* pages and the same length and other pages behind them.
C23_StaleRejected ==
    ipc = "built" => (~Scan(data).panic /\ index = Scan(data).index)


=============================================================================
